---- MODULE Spec2Model ----
(***************************************************************************)
(* tty0tty null modem emulator (src/module/tty0tty.c).                     *)
(*                                                                         *)
(* The state is the driver's table of per-port records (tty0tty_table),    *)
(* the tty layer's driver_data pointer of every index, the inbound flip    *)
(* buffer of every port and the callers sleeping in TIOCMIWAIT.  Three     *)
(* history variables record what the properties speak about: call, the     *)
(* last driver call that returned, with its arguments and return value;    *)
(* before, the table and the streams as that call found them; relayed, per *)
(* port, the bytes written on its counterpart while both were open.        *)
(* In the sequential specifications every tty_operations entry is one      *)
(* action.                                                                 *)
(*                                                                         *)
(* Three further parts share these variables.  SpecExit follows            *)
(* tty0tty_exit through its freeing loop.  SpecOutcome starts from a       *)
(* sleeping TIOCMIWAIT caller with arbitrary counters and runs the body of *)
(* its loop.  SpecRace and SpecFair split every entry into the steps       *)
(* between its loads, stores, down() and up(), on a heap of records with   *)
(* identity (kmem), and let two callers interleave them.                   *)
(*                                                                         *)
(* get_counterpart reads tts->tty->index; in the first open of a port      *)
(* tts->tty is still NULL, so that load either faults (the call ends in an *)
(* oops) or yields an arbitrary index.                                     *)
(*                                                                         *)
(* Calling discipline of the tty layer: tiocmget, tiocmset and ioctl are   *)
(* reached through an open file of the tty, so they are called on ports    *)
(* with open_count > 0.  close, write and write_room carry their own       *)
(* "port was not opened" branches, and these are exercised on every port   *)
(* that has a record.                                                      *)
(***************************************************************************)
EXTENDS Integers, Sequences, FiniteSets, TLC

VARIABLES pairs, tty0tty_table, driver_data, stream, waiter, call, before, relayed,
          exit_i, freed, kmem, task

\* The variables of module unloading: the loop variable i of tty0tty_exit
\* (NULL while the module is loaded) and the indices whose record it freed.
exit_vars == <<exit_i, freed>>

\* The variables of the interleaved calls: kmem, the struct tty0tty_serial
\* objects kzalloc has handed out (with their semaphores) and the pointers
\* tty0tty_table holds; task, the position and the locals of every caller
\* that is inside a driver function.
race_vars == <<kmem, task>>

vars == <<pairs, tty0tty_table, driver_data, stream, waiter, call, before, relayed,
          exit_vars, race_vars>>

\* ---------------------------------------------------------------- bounds
\* open_count is an int; the model stops opening a port at MaxOpen holders.
MaxOpen == 2
\* Largest number of pairs the pairing specification loads the module with.
MaxPairs == 2
\* Longest buffer handed to one write, and the room of a modelled flip buffer.
MaxWrite == 2
MaxStream == 2
\* Largest value of an interrupt counter the loop of TIOCMIWAIT is run with.
MaxCount == 1

\* ------------------------------------------------------------- constants
\* A null pointer to a port or tty (pointers are table indices), and an empty
\* slot of tty0tty_table.
NULL == -1
NoSerial == [null |-> TRUE]

\* fake UART values: out
MCR_DTR == "MCR_DTR"
MCR_RTS == "MCR_RTS"
MCR_LOOP == "MCR_LOOP"
\* fake UART values: in
MSR_CTS == "MSR_CTS"
MSR_CD == "MSR_CD"
MSR_DSR == "MSR_DSR"
MSR_RI == "MSR_RI"

\* modem line flags of the tty layer (termios TIOCM_*)
TIOCM_DTR == "TIOCM_DTR"
TIOCM_RTS == "TIOCM_RTS"
TIOCM_LOOP == "TIOCM_LOOP"
TIOCM_CTS == "TIOCM_CTS"
TIOCM_CAR == "TIOCM_CAR"
TIOCM_RI == "TIOCM_RI"
TIOCM_DSR == "TIOCM_DSR"

\* The flags tiocmset looks at, and the flags a TIOCMIWAIT argument can name.
ControlFlags == {TIOCM_DTR, TIOCM_RTS, TIOCM_LOOP}
StatusFlags == {TIOCM_CTS, TIOCM_CAR, TIOCM_RI, TIOCM_DSR}

\* Bytes a caller can write.
Bytes == {"a", "b"}

\* Indices of the table: 2 * pairs ports.
Ports == 0 .. (2 * pairs - 1)

\* The callers of TIOCMIWAIT: one thread that can sleep in the wait.
Threads == {"t1"}

\* ----------------------------------------------------------- the records
\* struct async_icount, the four modem-line counters; kzalloc zeroes them.
ZeroIcount == [cts |-> 0, dsr |-> 0, rng |-> 0, dcd |-> 0]

\* struct tty0tty_serial as open() creates it: kzalloc, open_count = 0.
NewSerial ==
  [tty |-> NULL, open_count |-> 0, msr |-> {}, mcr |-> {}, icount |-> ZeroIcount]

\* Return values: an errno name ("0" for none) and the value returned.
Ok(v) == [err |-> "0", val |-> v]
Err(e) == [err |-> e, val |-> 0]

NoArgs == [set |-> {}, clear |-> {}, buf |-> <<>>, thread |-> "none"]
Call(op, port, args, ret) == [op |-> op, port |-> port, args |-> args, ret |-> ret]

\* A call returns: the history records it and the state it started from.
Returns(op, port, args, ret) ==
  /\ call' = Call(op, port, args, ret)
  /\ before' = [table |-> tty0tty_table, stream |-> stream]

\* The callers that can be inside the driver at the same time.
Tasks == {"p", "q"}

\* A caller outside the driver; inside, the fields are the function's
\* parameters (op, index, set, clear, buf) and locals.
IdleTask ==
  [pc |-> "idle", op |-> "none", index |-> 0, set |-> {}, clear |-> {},
   buf |-> <<>>, tty0tty |-> NULL, tts |-> NULL, mcr |-> {}, msr |-> {},
   ttyx |-> NULL, retval |-> Ok(0)]

IdleWaiter ==
  [pc |-> "idle", port |-> 0, arg |-> {}, cprev |-> ZeroIcount,
   state |-> "TASK_RUNNING", signal_pending |-> FALSE]

\* ------------------------------------------------------- get_counterpart
\* The index of the other port of the pair.
counterpart_idx(idx) == IF idx % 2 = 1 THEN idx - 1 ELSE idx + 1

\* get_counterpart that returns any record the counterpart's slot holds.
get_counterpart_any(table, idx) ==
  LET c == counterpart_idx(idx)
  IN  IF table[c] # NoSerial THEN c ELSE NULL

\* The counterpart's record (named by its index) when it exists and is open.
get_counterpart(table, idx) ==
  LET c == counterpart_idx(idx)
  IN  IF table[c] # NoSerial /\ table[c].open_count > 0 THEN c ELSE NULL

\* Whether the port has a record with open references, and whether both
\* ports of its pair do.
IsOpen(table, idx) == table[idx] # NoSerial /\ table[idx].open_count > 0
BothOpen(table, idx) == IsOpen(table, idx) /\ IsOpen(table, counterpart_idx(idx))

\* ------------------------------------------------- null modem connection
\* The status lines a port sees for the control lines mcr of the other side.
null_modem(mcr) ==
  (IF MCR_RTS \in mcr THEN {MSR_CTS} ELSE {})
    \cup (IF MCR_DTR \in mcr THEN {MSR_DSR, MSR_CD} ELSE {})

\* ------------------------------------------------------------------ open
\* What get_counterpart reads as tts->tty->index for the record of index.
\* open() calls get_counterpart before it has stored the tty in the record,
\* so until the first open of a port has completed tts->tty is NULL and the
\* read goes through a null pointer: the caller dies in the kernel (NULL) or
\* the load yields some value, garbage.  Afterwards it is the tty's index.
tty_index(table, index, garbage) ==
  IF table[index].tty # NULL THEN table[index].tty ELSE garbage

\* The table once open has its record: the slot of index is filled.
open_lookup(table, index) ==
  IF table[index] = NoSerial THEN [table EXCEPT ![index] = NewSerial] ELSE table

\* The table after an open of index that got its record, idx being what
\* get_counterpart read as the index.
open_table(table, index, idx) ==
  LET t1 == open_lookup(table, index)
      tts == get_counterpart(t1, idx)
      mcr == IF tts # NULL THEN t1[tts].mcr ELSE {}
  IN  [t1 EXCEPT ![index].msr = null_modem(mcr),
                 ![index].mcr = {},
                 ![index].tty = index,
                 ![index].open_count = @ + 1]

\* tty0tty_open: alloc_ok is whether kzalloc succeeds if it is called,
\* garbage what a load through the null tts->tty does (NULL: it faults and
\* the call ends in an oops with the new record already in the table).
tty0tty_open(index, alloc_ok, garbage) ==
  /\ tty0tty_table[index] # NoSerial => tty0tty_table[index].open_count < MaxOpen
  /\ IF tty0tty_table[index] = NoSerial /\ ~alloc_ok
     THEN /\ driver_data' = [driver_data EXCEPT ![index] = NULL]
          /\ Returns("open", index, NoArgs, Err("ENOMEM"))
          /\ UNCHANGED tty0tty_table
     ELSE LET t1 == open_lookup(tty0tty_table, index)
              idx == tty_index(t1, index, garbage)
          IN  IF idx = NULL
              THEN /\ tty0tty_table' = t1
                   /\ driver_data' = [driver_data EXCEPT ![index] = NULL]
                   /\ Returns("open", index, NoArgs, Err("OOPS"))
              ELSE /\ tty0tty_table' = open_table(tty0tty_table, index, idx)
                   /\ driver_data' = [driver_data EXCEPT ![index] = index]
                   /\ Returns("open", index, NoArgs, Ok(0))
  /\ UNCHANGED <<pairs, stream, waiter, relayed, exit_vars, race_vars>>

\* ----------------------------------------------------------------- close
\* do_close that decrements open_count without looking at it.
do_close_unchecked(table, index) ==
  LET tts == get_counterpart(table, index)
      t1 == IF tts # NULL THEN [table EXCEPT ![tts].msr = {}] ELSE table
  IN  [t1 EXCEPT ![index].open_count = @ - 1]

\* do_close that leaves the counterpart's msr as it is.
do_close_keeps_msr(table, index) ==
  IF table[index].open_count = 0
  THEN table
  ELSE [table EXCEPT ![index].open_count = @ - 1]

\* do_close on the record of index.
do_close(table, index) ==
  LET tts == get_counterpart(table, index)
      t1 == IF tts # NULL THEN [table EXCEPT ![tts].msr = {}] ELSE table
  IN  IF t1[index].open_count = 0
      THEN t1
      ELSE [t1 EXCEPT ![index].open_count = @ - 1]

\* tty0tty_close: nothing to do without driver_data.
tty0tty_close(index) ==
  /\ tty0tty_table' = IF driver_data[index] # NULL
                      THEN do_close(tty0tty_table, index)
                      ELSE tty0tty_table
  /\ Returns("close", index, NoArgs, Ok(0))
  /\ UNCHANGED <<pairs, driver_data, stream, waiter, relayed, exit_vars, race_vars>>

\* -------------------------------------------------------------- tiocmset
\* tiocmset that starts from msr = 0 instead of the counterpart's msr.
tiocmset_table_fresh_msr(table, index, set, clear) ==
  LET tts == get_counterpart(table, index)
      mcr0 == table[index].mcr
      mcr1 == IF TIOCM_RTS \in set THEN mcr0 \cup {MCR_RTS} ELSE mcr0
      mcr2 == IF TIOCM_DTR \in set THEN mcr1 \cup {MCR_DTR} ELSE mcr1
      mcr3 == IF TIOCM_RTS \in clear THEN mcr2 \ {MCR_RTS} ELSE mcr2
      mcr4 == IF TIOCM_DTR \in clear THEN mcr3 \ {MCR_DTR} ELSE mcr3
      msr4 == ((IF TIOCM_RTS \in set THEN {MSR_CTS} ELSE {})
                 \cup (IF TIOCM_DTR \in set THEN {MSR_DSR, MSR_CD} ELSE {}))
      t1 == [table EXCEPT ![index].mcr = mcr4]
  IN  IF tts # NULL THEN [t1 EXCEPT ![tts].msr = msr4] ELSE t1

\* The table after tiocmset(set, clear) on the port index.
tiocmset_table(table, index, set, clear) ==
  LET tts == get_counterpart(table, index)
      mcr0 == table[index].mcr
      msr0 == IF tts # NULL THEN table[tts].msr ELSE {}
      mcr1 == IF TIOCM_RTS \in set THEN mcr0 \cup {MCR_RTS} ELSE mcr0
      msr1 == IF TIOCM_RTS \in set THEN msr0 \cup {MSR_CTS} ELSE msr0
      mcr2 == IF TIOCM_DTR \in set THEN mcr1 \cup {MCR_DTR} ELSE mcr1
      msr2 == IF TIOCM_DTR \in set THEN msr1 \cup {MSR_DSR, MSR_CD} ELSE msr1
      mcr3 == IF TIOCM_RTS \in clear THEN mcr2 \ {MCR_RTS} ELSE mcr2
      msr3 == IF TIOCM_RTS \in clear THEN msr2 \ {MSR_CTS} ELSE msr2
      mcr4 == IF TIOCM_DTR \in clear THEN mcr3 \ {MCR_DTR} ELSE mcr3
      msr4 == IF TIOCM_DTR \in clear THEN msr3 \ {MSR_DSR, MSR_CD} ELSE msr3
      t1 == [table EXCEPT ![index].mcr = mcr4]
  IN  IF tts # NULL THEN [t1 EXCEPT ![tts].msr = msr4] ELSE t1

tty0tty_tiocmset(index, set, clear) ==
  /\ driver_data[index] # NULL
  /\ tty0tty_table[index].open_count > 0
  /\ tty0tty_table' = tiocmset_table(tty0tty_table, index, set, clear)
  /\ Returns("tiocmset", index, [NoArgs EXCEPT !.set = set, !.clear = clear], Ok(0))
  /\ UNCHANGED <<pairs, driver_data, stream, waiter, relayed, exit_vars, race_vars>>

\* -------------------------------------------------------------- tiocmget
\* The TIOCM flags tiocmget reports for the shadow registers of the port.
tiocmget_result(table, index) ==
  LET msr == table[index].msr
      mcr == table[index].mcr
  IN  (IF MCR_DTR \in mcr THEN {TIOCM_DTR} ELSE {})
        \cup (IF MCR_RTS \in mcr THEN {TIOCM_RTS} ELSE {})
        \cup (IF MCR_LOOP \in mcr THEN {TIOCM_LOOP} ELSE {})
        \cup (IF MSR_CTS \in msr THEN {TIOCM_CTS} ELSE {})
        \cup (IF MSR_CD \in msr THEN {TIOCM_CAR} ELSE {})
        \cup (IF MSR_RI \in msr THEN {TIOCM_RI} ELSE {})
        \cup (IF MSR_DSR \in msr THEN {TIOCM_DSR} ELSE {})

tty0tty_tiocmget(index) ==
  /\ driver_data[index] # NULL
  /\ tty0tty_table[index].open_count > 0
  /\ Returns("tiocmget", index, NoArgs, Ok(tiocmget_result(tty0tty_table, index)))
  /\ UNCHANGED <<pairs, tty0tty_table, driver_data, stream, waiter, relayed, exit_vars, race_vars>>

\* ----------------------------------------------------------------- write
\* tty0tty_write that inserts into the writing port's own tty.
write_result_own_tty(table, data, index, buffer) ==
  IF data[index] = NULL
  THEN [ret |-> Err("ENODEV"), ttyx |-> NULL]
  ELSE IF table[index].open_count = 0
  THEN [ret |-> Err("EINVAL"), ttyx |-> NULL]
  ELSE LET tts == get_counterpart(table, index)
           ttyx == IF tts # NULL THEN table[index].tty ELSE NULL
       IN  IF ttyx # NULL
           THEN [ret |-> Ok(Len(buffer)), ttyx |-> ttyx]
           ELSE [ret |-> Err("EINVAL"), ttyx |-> NULL]

\* tty0tty_write that does not look at the writing port's open_count.
write_result_any_count(table, data, index, buffer) ==
  IF data[index] = NULL
  THEN [ret |-> Err("ENODEV"), ttyx |-> NULL]
  ELSE LET tts == get_counterpart(table, index)
           ttyx == IF tts # NULL THEN table[tts].tty ELSE NULL
       IN  IF ttyx # NULL
           THEN [ret |-> Ok(Len(buffer)), ttyx |-> ttyx]
           ELSE [ret |-> Err("EINVAL"), ttyx |-> NULL]

\* What tty0tty_write returns, and the port whose flip buffer gets the bytes
\* (ttyx, NULL when nothing is inserted).
write_result(table, data, index, buffer) ==
  IF data[index] = NULL
  THEN [ret |-> Err("ENODEV"), ttyx |-> NULL]
  ELSE IF table[index].open_count = 0
  THEN [ret |-> Err("EINVAL"), ttyx |-> NULL]
  ELSE LET tts == get_counterpart(table, index)
           ttyx == IF tts # NULL THEN table[tts].tty ELSE NULL
       IN  IF ttyx # NULL
           THEN [ret |-> Ok(Len(buffer)), ttyx |-> ttyx]
           ELSE [ret |-> Err("EINVAL"), ttyx |-> NULL]

\* tty0tty_write: tty_insert_flip_string and tty_flip_buffer_push on the
\* counterpart's port put the bytes at the end of its inbound stream.
tty0tty_write(index, buffer) ==
  LET r == write_result(tty0tty_table, driver_data, index, buffer)
  IN  /\ r.ttyx # NULL => Len(stream[r.ttyx]) + Len(buffer) <= MaxStream
      /\ stream' = IF r.ttyx # NULL
                   THEN [stream EXCEPT ![r.ttyx] = @ \o buffer]
                   ELSE stream
      /\ relayed' = IF BothOpen(tty0tty_table, index)
                    THEN [relayed EXCEPT ![counterpart_idx(index)] = @ \o buffer]
                    ELSE relayed
      /\ Returns("write", index, [NoArgs EXCEPT !.buf = buffer], r.ret)
      /\ UNCHANGED <<pairs, tty0tty_table, driver_data, waiter, exit_vars, race_vars>>

\* ------------------------------------------------------------ write_room
write_room_result(table, data, index) ==
  IF data[index] = NULL
  THEN Err("ENODEV")
  ELSE IF table[index].open_count = 0
  THEN Err("EINVAL")
  ELSE Ok(255)

tty0tty_write_room(index) ==
  /\ Returns("write_room", index, NoArgs,
                  write_room_result(tty0tty_table, driver_data, index))
  /\ UNCHANGED <<pairs, tty0tty_table, driver_data, stream, waiter, relayed, exit_vars, race_vars>>

\* ------------------------------------------------------ ioctl TIOCGICOUNT
\* The four modem-line counters TIOCGICOUNT copies to the caller.
tiocgicount_result(table, index) ==
  LET cnow == table[index].icount
  IN  [cts |-> cnow.cts, dsr |-> cnow.dsr, rng |-> cnow.rng, dcd |-> cnow.dcd]

tty0tty_ioctl_tiocgicount(index) ==
  /\ driver_data[index] # NULL
  /\ tty0tty_table[index].open_count > 0
  /\ Returns("tiocgicount", index, NoArgs,
                  Ok(tiocgicount_result(tty0tty_table, index)))
  /\ UNCHANGED <<pairs, tty0tty_table, driver_data, stream, waiter, relayed, exit_vars, race_vars>>

\* ------------------------------------------------------- ioctl TIOCMIWAIT
\* A thread enters TIOCMIWAIT on the port: it snapshots icount, puts itself
\* on the port's wait queue and sleeps in TASK_INTERRUPTIBLE.  The queue head
\* tty0tty->wait is never initialised (kzalloc leaves its list pointers 0), so
\* add_wait_queue works on an invalid list: the call either links the entry
\* and sleeps, or the thread dies in the kernel ("oops") and never returns.
tiocmiwait_sleep(t, index, arg, linked) ==
  /\ waiter[t].pc = "idle"
  /\ driver_data[index] # NULL
  /\ tty0tty_table[index].open_count > 0
  /\ waiter' = [waiter EXCEPT ![t] =
                  IF linked
                  THEN [pc |-> "sleep", port |-> index, arg |-> arg,
                        cprev |-> tty0tty_table[index].icount,
                        state |-> "TASK_INTERRUPTIBLE", signal_pending |-> FALSE]
                  ELSE [IdleWaiter EXCEPT !.pc = "oops"]]
  /\ UNCHANGED <<pairs, tty0tty_table, driver_data, stream, call, before, relayed, exit_vars, race_vars>>

\* A signal is sent to a sleeping thread: it becomes runnable.
send_signal(t) ==
  /\ waiter[t].pc = "sleep"
  /\ ~waiter[t].signal_pending
  /\ waiter' = [waiter EXCEPT ![t].signal_pending = TRUE, ![t].state = "TASK_RUNNING"]
  /\ UNCHANGED <<pairs, tty0tty_table, driver_data, stream, call, before, relayed, exit_vars, race_vars>>

\* Something other than the driver wakes the sleeping thread (the driver
\* itself never calls wake_up on tty0tty->wait).
spurious_wake(t) ==
  /\ waiter[t].pc = "sleep"
  /\ waiter[t].state = "TASK_INTERRUPTIBLE"
  /\ waiter' = [waiter EXCEPT ![t].state = "TASK_RUNNING"]
  /\ UNCHANGED <<pairs, tty0tty_table, driver_data, stream, call, before, relayed, exit_vars, race_vars>>

\* The loop with the test for a pending signal after the counter tests.
tiocmiwait_outcome_signal_last(signalled, arg, cprev, cnow) ==
  IF cnow.rng = cprev.rng /\ cnow.dsr = cprev.dsr
       /\ cnow.dcd = cprev.dcd /\ cnow.cts = cprev.cts
  THEN IF signalled THEN "ERESTARTSYS" ELSE "EIO"
  ELSE IF \/ (TIOCM_RI \in arg /\ cnow.rng # cprev.rng)
          \/ (TIOCM_DSR \in arg /\ cnow.dsr # cprev.dsr)
          \/ (TIOCM_CAR \in arg /\ cnow.dcd # cprev.dcd)
          \/ (TIOCM_CTS \in arg /\ cnow.cts # cprev.cts)
  THEN "0"
  ELSE IF signalled THEN "ERESTARTSYS" ELSE "again"

\* What the loop does once schedule() has returned: "ERESTARTSYS", "EIO",
\* "0" to return, "again" to take cnow as the snapshot and sleep again.
tiocmiwait_outcome(signalled, arg, cprev, cnow) ==
  IF signalled
  THEN "ERESTARTSYS"
  ELSE IF cnow.rng = cprev.rng /\ cnow.dsr = cprev.dsr
          /\ cnow.dcd = cprev.dcd /\ cnow.cts = cprev.cts
  THEN "EIO"
  ELSE IF \/ (TIOCM_RI \in arg /\ cnow.rng # cprev.rng)
          \/ (TIOCM_DSR \in arg /\ cnow.dsr # cprev.dsr)
          \/ (TIOCM_CAR \in arg /\ cnow.dcd # cprev.dcd)
          \/ (TIOCM_CTS \in arg /\ cnow.cts # cprev.cts)
  THEN "0"
  ELSE "again"

\* The woken thread runs the body of the loop after schedule().
tiocmiwait_resume(t) ==
  /\ waiter[t].pc = "sleep"
  /\ waiter[t].state = "TASK_RUNNING"
  /\ LET w == waiter[t]
         cnow == tty0tty_table[w.port].icount
         out == tiocmiwait_outcome(w.signal_pending, w.arg, w.cprev, cnow)
     IN  IF out = "again"
         THEN /\ waiter' = [waiter EXCEPT ![t].cprev = cnow,
                                           ![t].state = "TASK_INTERRUPTIBLE"]
              /\ UNCHANGED <<call, before>>
         ELSE /\ waiter' = [waiter EXCEPT ![t] = IdleWaiter]
              /\ Returns("tiocmiwait", w.port,
                              [NoArgs EXCEPT !.set = w.arg, !.thread = t],
                              IF out = "0" THEN Ok(0) ELSE Err(out))
  /\ UNCHANGED <<pairs, tty0tty_table, driver_data, stream, relayed, exit_vars, race_vars>>

\* ------------------------------------------------------------------ init
\* tty0tty_init with the module parameter pairs = n: every slot is NULL.
tty0tty_init(n) ==
  /\ pairs = n
  /\ tty0tty_table = [i \in 0 .. (2 * n - 1) |-> NoSerial]
  /\ driver_data = [i \in 0 .. (2 * n - 1) |-> NULL]
  /\ stream = [i \in 0 .. (2 * n - 1) |-> <<>>]
  /\ waiter = [t \in Threads |-> IdleWaiter]
  /\ call = Call("init", 0, NoArgs, Ok(0))
  /\ before = [table |-> tty0tty_table, stream |-> stream]
  /\ relayed = [i \in 0 .. (2 * n - 1) |-> <<>>]
  /\ exit_i = NULL
  /\ freed = {}
  /\ kmem = [serial |-> <<>>, table |-> [i \in 0 .. (2 * pairs - 1) |-> NULL]]
  /\ task = [t \in Tasks |-> IdleTask]

\* The module loaded with one pair, ports 0 and 1.
Init == tty0tty_init(1)

\* What a load through tts->tty can yield in an open of index: the tty's index
\* once the record has its tty; before, a fault (NULL) or any index.  The
\* index read is used only to look up its counterpart, so the indexes whose
\* counterpart is not open all act alike and counterpart_idx(index), whose
\* counterpart is the record being opened, stands for them.
IndexReads(index) ==
  IF tty0tty_table[index] # NoSerial /\ tty0tty_table[index].tty # NULL
  THEN {tty0tty_table[index].tty}
  ELSE {NULL, counterpart_idx(index)}
         \cup {i \in Ports : get_counterpart(tty0tty_table, i) # NULL}

\* Whether kzalloc can fail in an open of index: it is called only for an
\* empty slot.
AllocOutcomes(index) ==
  IF tty0tty_table[index] = NoSerial THEN BOOLEAN ELSE {TRUE}

Open ==
  \E index \in Ports :
    \E alloc_ok \in AllocOutcomes(index) :
      \E garbage \in (IF alloc_ok THEN IndexReads(index) ELSE {NULL}) :
        tty0tty_open(index, alloc_ok, garbage)
Close == \E index \in Ports : tty0tty_close(index)
\* The tty layer's tty_tiocmset hands the driver disjoint masks (TIOCMBIS: no
\* clear; TIOCMBIC: no set; TIOCMSET: clear is the complement of set).  The
\* calls issued: every disjoint pair of masks over RTS and DTR, and LOOP set
\* or cleared on its own.
ControlMasks ==
  {m \in (SUBSET {TIOCM_RTS, TIOCM_DTR}) \X (SUBSET {TIOCM_RTS, TIOCM_DTR}) :
     m[1] \cap m[2] = {}}
    \cup {<<{TIOCM_LOOP}, {}>>, <<{}, {TIOCM_LOOP}>>}

Tiocmset ==
  \E index \in Ports, m \in ControlMasks : tty0tty_tiocmset(index, m[1], m[2])
Tiocmget == \E index \in Ports : tty0tty_tiocmget(index)
Tiocgicount == \E index \in Ports : tty0tty_ioctl_tiocgicount(index)

\* The control surface of one pair: open, close and the modem-line calls.
Next == Open \/ Close \/ Tiocmset \/ Tiocmget \/ Tiocgicount

Spec == Init /\ [][Next]_vars

\* ---------------------------------------------------------- the byte relay
\* The line discipline hands write at least one byte.
Buffers == UNION {[1 .. n -> Bytes] : n \in 1 .. MaxWrite}

Write == \E index \in Ports, buffer \in Buffers : tty0tty_write(index, buffer)
WriteRoom == \E index \in Ports : tty0tty_write_room(index)

NextRelay == Open \/ Close \/ Write \/ WriteRoom

SpecRelay == Init /\ [][NextRelay]_vars

\* ------------------------------------------------- the status-change wait
\* The calls the waiting specification issues: raise RTS, raise DTR, drop both.
WaitSets == {{TIOCM_RTS}, {TIOCM_DTR}, {}}
WaitClear(set) == IF set = {} THEN {TIOCM_RTS, TIOCM_DTR} ELSE {}
WaitArgs == {{TIOCM_CTS}, {TIOCM_DSR, TIOCM_CAR}}

TiocmsetLine == \E index \in Ports, set \in WaitSets :
                  tty0tty_tiocmset(index, set, WaitClear(set))
TiocmiwaitSleep ==
  \E t \in Threads, index \in Ports, arg \in WaitArgs, linked \in BOOLEAN :
    tiocmiwait_sleep(t, index, arg, linked)
SendSignal == \E t \in Threads : send_signal(t)
SpuriousWake == \E t \in Threads : spurious_wake(t)
TiocmiwaitResume == \E t \in Threads : tiocmiwait_resume(t)

NextWait ==
  \/ Open \/ Close \/ TiocmsetLine
  \/ TiocmiwaitSleep \/ SendSignal \/ SpuriousWake \/ TiocmiwaitResume

SpecWait == Init /\ [][NextWait]_vars

\* ------------------------------------------------------------ the pairing
\* The module loaded with any number of pairs up to MaxPairs.
InitPairs == \E n \in 1 .. MaxPairs : tty0tty_init(n)

NextPairs == Open \/ Close

SpecPairs == InitPairs /\ [][NextPairs]_vars

\* ------------------------------------------------------------------ exit
\* The freeing step of tty0tty_exit that leaves the pointer in the table.
exit_release_keeps_slot(table, i) == table

\* kfree(tty0tty); tty0tty_table[i] = NULL.
exit_release(table, i) == [table EXCEPT ![i] = NoSerial]

\* tty0tty_exit up to its freeing loop: the devices and the driver are
\* unregistered, so no tty call arrives any more; i = 0.
tty0tty_exit_begin ==
  /\ exit_i = NULL
  /\ exit_i' = 0
  /\ UNCHANGED <<pairs, tty0tty_table, driver_data, stream, waiter, call, before,
                 relayed, freed, race_vars>>

\* One step of the freeing loop of tty0tty_exit at index i: skip an empty
\* slot, run one do_close of the while loop, or free the record and go on.
tty0tty_exit_loop ==
  /\ exit_i # NULL
  /\ exit_i < 2 * pairs
  /\ LET i == exit_i
     IN  IF tty0tty_table[i] = NoSerial
         THEN /\ exit_i' = i + 1
              /\ UNCHANGED <<tty0tty_table, freed, call, before>>
         ELSE IF tty0tty_table[i].open_count # 0
         THEN /\ tty0tty_table' = do_close(tty0tty_table, i)
              /\ Returns("do_close", i, NoArgs, Ok(0))
              /\ UNCHANGED <<exit_i, freed>>
         ELSE /\ tty0tty_table' = exit_release(tty0tty_table, i)
              /\ freed' = freed \cup {i}
              /\ exit_i' = i + 1
              /\ UNCHANGED <<call, before>>
  /\ UNCHANGED <<pairs, driver_data, stream, waiter, relayed, race_vars>>

\* The module is loaded: tty0tty_exit has not been entered.
Loaded == exit_i = NULL

ExitBegin == tty0tty_exit_begin
ExitLoop == tty0tty_exit_loop

\* One pair in use, unloaded at any moment.  tty0tty_exit runs in the thread
\* of rmmod, which keeps running: the loop is weakly fair.
NextExit ==
  \/ (Loaded /\ Open) \/ (Loaded /\ Close) \/ (Loaded /\ TiocmsetLine)
  \/ ExitBegin \/ ExitLoop

SpecExit == Init /\ [][NextExit]_vars /\ WF_vars(ExitLoop)

\* ------------------------------------------- the loop of the status wait
\* The values of struct async_icount the loop is run with.
Icounts == [{"cts", "dsr", "rng", "dcd"} -> 0 .. MaxCount]

\* The driver never writes icount, so the loop of TIOCMIWAIT only ever sees
\* zeroes.  To run every branch of it, this specification starts with port 0
\* open, its counters at any value, and a caller asleep in the wait with any
\* mask and any snapshot.
InitOutcome ==
  /\ pairs = 1
  /\ \E cnow \in Icounts :
       tty0tty_table = [i \in 0 .. 1 |->
                          IF i = 0
                          THEN [NewSerial EXCEPT !.tty = 0, !.open_count = 1,
                                                 !.icount = cnow]
                          ELSE NoSerial]
  /\ driver_data = [i \in 0 .. 1 |-> IF i = 0 THEN 0 ELSE NULL]
  /\ stream = [i \in 0 .. 1 |-> <<>>]
  /\ \E arg \in SUBSET StatusFlags, cprev \in Icounts :
       waiter = [t \in Threads |->
                   [pc |-> "sleep", port |-> 0, arg |-> arg, cprev |-> cprev,
                    state |-> "TASK_INTERRUPTIBLE", signal_pending |-> FALSE]]
  /\ call = Call("open", 0, NoArgs, Ok(0))
  /\ before = [table |-> tty0tty_table, stream |-> stream]
  /\ relayed = [i \in 0 .. 1 |-> <<>>]
  /\ exit_i = NULL
  /\ freed = {}
  /\ kmem = [serial |-> <<>>, table |-> [i \in 0 .. (2 * pairs - 1) |-> NULL]]
  /\ task = [t \in Tasks |-> IdleTask]

NextOutcome == SendSignal \/ SpuriousWake \/ TiocmiwaitResume

SpecOutcome == InitOutcome /\ [][NextOutcome]_vars

\* ------------------------------------------------- interleaved calls
\* The calls above run one at a time.  Here two callers are inside the
\* driver at once and every step is one stretch of a function between two
\* points where the other caller can run: a lookup, a store, down(), up().
\* Memory holds the records by identity: kmem.serial[ptr] is the object a
\* pointer ptr refers to, kmem.table[i] the pointer in tty0tty_table[i], and
\* driver_data[i] the pointer in the tty of index i.  tty0tty_table stays
\* the content of the table, the records the slots point to.

\* The object open() creates: kzalloc, sema_init(&sem, 1), open_count = 0.
NewObject == [tty |-> NULL, open_count |-> 0, msr |-> {}, mcr |-> {},
              icount |-> ZeroIcount, sem |-> 1]

\* The record held in an object.
RecordOf(obj) ==
  [tty |-> obj.tty, open_count |-> obj.open_count, msr |-> obj.msr,
   mcr |-> obj.mcr, icount |-> obj.icount]

\* The content of the table in memory k.
TableOf(k) ==
  [i \in DOMAIN k.table |->
     IF k.table[i] = NULL THEN NoSerial ELSE RecordOf(k.serial[k.table[i]])]

\* Memory holding the records of table, one object per filled slot.
KmemOf(table) ==
  LET filled == {i \in DOMAIN table : table[i] # NoSerial}
      ptr(i) == Cardinality({j \in filled : j <= i})
      slot(k) == CHOOSE i \in filled : ptr(i) = k
  IN  [serial |-> [k \in 1 .. Cardinality(filled) |->
                     [NewObject EXCEPT !.tty = table[slot(k)].tty,
                                       !.open_count = table[slot(k)].open_count,
                                       !.msr = table[slot(k)].msr,
                                       !.mcr = table[slot(k)].mcr]],
       table |-> [i \in DOMAIN table |-> IF i \in filled THEN ptr(i) ELSE NULL]]

\* The calls made before the two callers meet, and the table they leave.
SetupCall(table, c) ==
  IF c.op = "open" THEN open_table(table, c.port, c.port)
  ELSE IF c.op = "close" THEN do_close(table, c.port)
  ELSE tiocmset_table(table, c.port, c.set, {})

RECURSIVE SetupTable(_)
SetupTable(calls) ==
  IF calls = <<>>
  THEN [i \in 0 .. 1 |-> NoSerial]
  ELSE SetupCall(SetupTable(SubSeq(calls, 1, Len(calls) - 1)), calls[Len(calls)])

SetupOpen(port) == [op |-> "open", port |-> port, set |-> {}]
SetupClose(port) == [op |-> "close", port |-> port, set |-> {}]
SetupSet(port, set) == [op |-> "tiocmset", port |-> port, set |-> set]

\* Nothing opened yet; port 1 open and driving DTR, port 0 never opened, or
\* opened and closed again; both ports open; port 0 held twice.
Setups ==
  { <<>>,
    <<SetupOpen(1), SetupSet(1, {TIOCM_DTR})>>,
    <<SetupOpen(0), SetupClose(0), SetupOpen(1), SetupSet(1, {TIOCM_DTR})>>,
    <<SetupOpen(0), SetupOpen(1)>>,
    <<SetupOpen(0), SetupOpen(0), SetupOpen(1)>> }

\* A caller entering function op of the port index.
Enter(op, index, set, clear, buf) ==
  [IdleTask EXCEPT !.pc = op, !.op = op, !.index = index,
                   !.set = set, !.clear = clear, !.buf = buf]

\* The calls a caller can make on a table: open, close, write and write_room
\* on any port; tiocmset and TIOCMIWAIT through an open file of the port.
Calls(table) ==
  {Enter(op, i, {}, {}, <<>>) : op \in {"open", "close", "write_room"}, i \in 0 .. 1}
    \cup {Enter("write", i, {}, {}, <<"a">>) : i \in 0 .. 1}
    \cup {Enter("tiocmset", i, m[1], m[2], <<>>) :
            i \in {j \in 0 .. 1 : IsOpen(table, j)},
            m \in {<<{TIOCM_RTS}, {}>>, <<{TIOCM_DTR}, {}>>,
                   <<{}, {TIOCM_RTS, TIOCM_DTR}>>}}
    \cup {Enter("tiocmiwait", i, {TIOCM_CTS}, {}, <<>>) :
            i \in {j \in 0 .. 1 : IsOpen(table, j)}}

\* One pair after one of the setups, and two callers entering the driver.
InitRace ==
  /\ pairs = 1
  /\ \E s \in Setups : tty0tty_table = SetupTable(s)
  /\ kmem = KmemOf(tty0tty_table)
  /\ driver_data = [i \in 0 .. 1 |->
                      IF tty0tty_table[i] # NoSerial /\ tty0tty_table[i].tty # NULL
                      THEN kmem.table[i] ELSE NULL]
  /\ stream = [i \in 0 .. 1 |-> <<>>]
  /\ waiter = [t \in Threads |-> IdleWaiter]
  /\ call = Call("init", 0, NoArgs, Ok(0))
  /\ before = [table |-> tty0tty_table, stream |-> stream]
  /\ relayed = [i \in 0 .. 1 |-> <<>>]
  /\ exit_i = NULL
  /\ freed = {}
  /\ task \in [Tasks -> Calls(tty0tty_table)]

\* Memory k becomes the memory; the content of the table follows it.
Store(k) == kmem' = k /\ tty0tty_table' = TableOf(k)

\* What a step of an interleaved call leaves alone.
RaceFrame == UNCHANGED <<pairs, waiter, call, before, relayed, exit_vars>>

\* get_counterpart(tts) in memory k, idx being what it read as the index.
counterpart_ptr(k, idx) ==
  LET c == get_counterpart(TableOf(k), idx)
  IN  IF c = NULL THEN NULL ELSE k.table[c]

\* What get_counterpart reads as tts->tty->index through the pointer ptr.
ptr_index(k, ptr, garbage) ==
  IF k.serial[ptr].tty # NULL THEN k.serial[ptr].tty ELSE garbage

\* down(&sem) on the object at ptr.
down(k, ptr) == [k EXCEPT !.serial[ptr].sem = 0]

\* An exit path that returns without up().
up_forgotten(k, ptr) == k

\* up(&sem) on the object at ptr.
up(k, ptr) == [k EXCEPT !.serial[ptr].sem = 1]

\* ---------------------------------------------------- open, step by step
\* tty->driver_data = NULL; tty0tty = tty0tty_table[index].
open_entry(t) ==
  /\ task[t].pc = "open"
  /\ driver_data' = [driver_data EXCEPT ![task[t].index] = NULL]
  /\ task' = [task EXCEPT ![t].tty0tty = kmem.table[task[t].index],
                          ![t].pc = IF kmem.table[task[t].index] = NULL
                                    THEN "open_create" ELSE "open_counterpart"]
  /\ UNCHANGED <<kmem, tty0tty_table, stream>>
  /\ RaceFrame

\* The slot was NULL: kzalloc, sema_init, open_count = 0, and the new object
\* goes into the table, whatever the slot holds by now.
open_create(t, alloc_ok) ==
  /\ task[t].pc = "open_create"
  /\ IF alloc_ok
     THEN LET ptr == Len(kmem.serial) + 1
          IN  /\ Store([serial |-> Append(kmem.serial, NewObject),
                        table |-> [kmem.table EXCEPT ![task[t].index] = ptr]])
              /\ task' = [task EXCEPT ![t].tty0tty = ptr,
                                      ![t].pc = "open_counterpart"]
     ELSE /\ task' = [task EXCEPT ![t].retval = Err("ENOMEM"), ![t].pc = "done"]
          /\ UNCHANGED <<kmem, tty0tty_table>>
  /\ UNCHANGED <<driver_data, stream>>
  /\ RaceFrame

\* tts = get_counterpart(tty0tty); if (tts) mcr = tts->mcr.  The object's
\* tty is NULL until an open of it has completed: the read of its index then
\* faults (garbage = NULL, the caller dies) or yields garbage.
open_counterpart(t, garbage) ==
  /\ task[t].pc = "open_counterpart"
  /\ LET idx == ptr_index(kmem, task[t].tty0tty, garbage)
         tts == counterpart_ptr(kmem, idx)
     IN  IF idx = NULL
         THEN task' = [task EXCEPT ![t].pc = "oops"]
         ELSE task' = [task EXCEPT ![t].tts = tts,
                                   ![t].mcr = IF tts # NULL
                                              THEN kmem.serial[tts].mcr ELSE {},
                                   ![t].pc = "open_lines"]
  /\ UNCHANGED <<kmem, tty0tty_table, driver_data, stream>>
  /\ RaceFrame

\* tty0tty->msr = msr; tty0tty->mcr = 0.
open_lines(t) ==
  /\ task[t].pc = "open_lines"
  /\ Store([kmem EXCEPT !.serial[task[t].tty0tty].msr = null_modem(task[t].mcr),
                        !.serial[task[t].tty0tty].mcr = {}])
  /\ task' = [task EXCEPT ![t].pc = "open_down"]
  /\ UNCHANGED <<driver_data, stream>>
  /\ RaceFrame

\* down(&tty0tty->sem).
open_down(t) ==
  /\ task[t].pc = "open_down"
  /\ kmem.serial[task[t].tty0tty].sem = 1
  /\ Store(down(kmem, task[t].tty0tty))
  /\ task' = [task EXCEPT ![t].pc = "open_locked"]
  /\ UNCHANGED <<driver_data, stream>>
  /\ RaceFrame

\* tty->driver_data = tty0tty; tty0tty->tty = tty; ++open_count; up; return 0.
open_locked(t) ==
  /\ task[t].pc = "open_locked"
  /\ driver_data' = [driver_data EXCEPT ![task[t].index] = task[t].tty0tty]
  /\ Store(up([kmem EXCEPT !.serial[task[t].tty0tty].tty = task[t].index,
                            !.serial[task[t].tty0tty].open_count = @ + 1],
              task[t].tty0tty))
  /\ task' = [task EXCEPT ![t].retval = Ok(0), ![t].pc = "done"]
  /\ UNCHANGED stream
  /\ RaceFrame

\* --------------------------------------------------- close, step by step
\* tty0tty_close: tty0tty = tty->driver_data; do_close: tts =
\* get_counterpart(tty0tty).  driver_data is only set once the tty is.
close_entry(t) ==
  /\ task[t].pc = "close"
  /\ LET ptr == driver_data[task[t].index]
     IN  IF ptr = NULL
         THEN task' = [task EXCEPT ![t].pc = "done"]
         ELSE task' = [task EXCEPT
                         ![t].tty0tty = ptr,
                         ![t].tts = counterpart_ptr(kmem, kmem.serial[ptr].tty),
                         ![t].pc = "close_lines"]
  /\ UNCHANGED <<kmem, tty0tty_table, driver_data, stream>>
  /\ RaceFrame

\* if (tts) tts->msr = 0.
close_lines(t) ==
  /\ task[t].pc = "close_lines"
  /\ IF task[t].tts # NULL
     THEN Store([kmem EXCEPT !.serial[task[t].tts].msr = {}])
     ELSE UNCHANGED <<kmem, tty0tty_table>>
  /\ task' = [task EXCEPT ![t].pc = "close_down"]
  /\ UNCHANGED <<driver_data, stream>>
  /\ RaceFrame

\* down(&tty0tty->sem).
close_down(t) ==
  /\ task[t].pc = "close_down"
  /\ kmem.serial[task[t].tty0tty].sem = 1
  /\ Store(down(kmem, task[t].tty0tty))
  /\ task' = [task EXCEPT ![t].pc = "close_locked"]
  /\ UNCHANGED <<driver_data, stream>>
  /\ RaceFrame

\* if (open_count) --open_count; up.
close_locked(t) ==
  /\ task[t].pc = "close_locked"
  /\ Store(up(IF kmem.serial[task[t].tty0tty].open_count = 0
              THEN kmem
              ELSE [kmem EXCEPT !.serial[task[t].tty0tty].open_count = @ - 1],
              task[t].tty0tty))
  /\ task' = [task EXCEPT ![t].pc = "done"]
  /\ UNCHANGED <<driver_data, stream>>
  /\ RaceFrame

\* --------------------------------------------------- write, step by step
\* tty0tty = tty->driver_data; if (!tty0tty) return -ENODEV.
write_entry(t) ==
  /\ task[t].pc = "write"
  /\ LET ptr == driver_data[task[t].index]
     IN  IF ptr = NULL
         THEN task' = [task EXCEPT ![t].retval = Err("ENODEV"), ![t].pc = "done"]
         ELSE task' = [task EXCEPT ![t].tty0tty = ptr,
                                   ![t].retval = Err("EINVAL"),
                                   ![t].pc = "write_down"]
  /\ UNCHANGED <<kmem, tty0tty_table, driver_data, stream>>
  /\ RaceFrame

\* down(&tty0tty->sem).
write_down(t) ==
  /\ task[t].pc = "write_down"
  /\ kmem.serial[task[t].tty0tty].sem = 1
  /\ Store(down(kmem, task[t].tty0tty))
  /\ task' = [task EXCEPT ![t].pc = "write_counterpart"]
  /\ UNCHANGED <<driver_data, stream>>
  /\ RaceFrame

\* if (!open_count) goto exit; tts = get_counterpart(tty0tty);
\* if (tts) ttyx = tts->tty.
write_counterpart(t) ==
  /\ task[t].pc = "write_counterpart"
  /\ LET obj == kmem.serial[task[t].tty0tty]
         tts == counterpart_ptr(kmem, obj.tty)
         ttyx == IF tts # NULL THEN kmem.serial[tts].tty ELSE NULL
     IN  IF obj.open_count = 0
         THEN task' = [task EXCEPT ![t].pc = "write_up"]
         ELSE task' = [task EXCEPT ![t].tts = tts, ![t].ttyx = ttyx,
                                   ![t].pc = IF ttyx # NULL
                                             THEN "write_insert" ELSE "write_up"]
  /\ UNCHANGED <<kmem, tty0tty_table, driver_data, stream>>
  /\ RaceFrame

\* tty_insert_flip_string and tty_flip_buffer_push on ttyx; retval = count.
write_insert(t) ==
  /\ task[t].pc = "write_insert"
  /\ stream' = [stream EXCEPT ![task[t].ttyx] = @ \o task[t].buf]
  /\ task' = [task EXCEPT ![t].retval = Ok(Len(task[t].buf)), ![t].pc = "write_up"]
  /\ UNCHANGED <<kmem, tty0tty_table, driver_data>>
  /\ RaceFrame

\* exit: up(&tty0tty->sem); return retval.
write_up(t) ==
  /\ task[t].pc = "write_up"
  /\ Store(up(kmem, task[t].tty0tty))
  /\ task' = [task EXCEPT ![t].pc = "done"]
  /\ UNCHANGED <<driver_data, stream>>
  /\ RaceFrame

\* ---------------------------------------------- write_room, step by step
\* tty0tty = tty->driver_data; if (!tty0tty) return -ENODEV.
room_entry(t) ==
  /\ task[t].pc = "write_room"
  /\ LET ptr == driver_data[task[t].index]
     IN  IF ptr = NULL
         THEN task' = [task EXCEPT ![t].retval = Err("ENODEV"), ![t].pc = "done"]
         ELSE task' = [task EXCEPT ![t].tty0tty = ptr, ![t].pc = "room_down"]
  /\ UNCHANGED <<kmem, tty0tty_table, driver_data, stream>>
  /\ RaceFrame

\* down(&tty0tty->sem).
room_down(t) ==
  /\ task[t].pc = "room_down"
  /\ kmem.serial[task[t].tty0tty].sem = 1
  /\ Store(down(kmem, task[t].tty0tty))
  /\ task' = [task EXCEPT ![t].pc = "room_locked"]
  /\ UNCHANGED <<driver_data, stream>>
  /\ RaceFrame

\* room = open_count ? 255 : -EINVAL; up; return room.
room_locked(t) ==
  /\ task[t].pc = "room_locked"
  /\ Store(up(kmem, task[t].tty0tty))
  /\ task' = [task EXCEPT
                ![t].retval = IF kmem.serial[task[t].tty0tty].open_count = 0
                              THEN Err("EINVAL") ELSE Ok(255),
                ![t].pc = "done"]
  /\ UNCHANGED <<driver_data, stream>>
  /\ RaceFrame

\* ------------------------------------------------ tiocmset, step by step
\* The control lines tiocmset computes from the mcr it read.
tiocmset_mcr(mcr, set, clear) ==
  ((mcr \cup (IF TIOCM_RTS \in set THEN {MCR_RTS} ELSE {})
        \cup (IF TIOCM_DTR \in set THEN {MCR_DTR} ELSE {}))
     \ (IF TIOCM_RTS \in clear THEN {MCR_RTS} ELSE {}))
    \ (IF TIOCM_DTR \in clear THEN {MCR_DTR} ELSE {})

\* The counterpart's status lines tiocmset computes from the msr it read.
tiocmset_msr(msr, set, clear) ==
  ((msr \cup (IF TIOCM_RTS \in set THEN {MSR_CTS} ELSE {})
        \cup (IF TIOCM_DTR \in set THEN {MSR_DSR, MSR_CD} ELSE {}))
     \ (IF TIOCM_RTS \in clear THEN {MSR_CTS} ELSE {}))
    \ (IF TIOCM_DTR \in clear THEN {MSR_DSR, MSR_CD} ELSE {})

\* tty0tty = tty->driver_data; mcr = tty0tty->mcr; tts =
\* get_counterpart(tty0tty); if (tts) msr = tts->msr.  A concurrent open of
\* the same tty has driver_data at NULL for a while: the read of
\* tty0tty->mcr then goes through a null pointer and the caller dies.
tiocmset_entry(t) ==
  /\ task[t].pc = "tiocmset"
  /\ LET ptr == driver_data[task[t].index]
         tts == counterpart_ptr(kmem, kmem.serial[ptr].tty)
     IN  IF ptr = NULL
         THEN task' = [task EXCEPT ![t].pc = "oops"]
         ELSE task' = [task EXCEPT
                         ![t].tty0tty = ptr,
                         ![t].mcr = kmem.serial[ptr].mcr,
                         ![t].tts = tts,
                         ![t].msr = IF tts # NULL THEN kmem.serial[tts].msr ELSE {},
                         ![t].pc = "tiocmset_store"]
  /\ UNCHANGED <<kmem, tty0tty_table, driver_data, stream>>
  /\ RaceFrame

\* tty0tty->mcr = mcr; if (tts) tts->msr = msr; return 0.
tiocmset_store(t) ==
  /\ task[t].pc = "tiocmset_store"
  /\ LET k1 == [kmem EXCEPT !.serial[task[t].tty0tty].mcr =
                              tiocmset_mcr(task[t].mcr, task[t].set, task[t].clear)]
     IN  Store(IF task[t].tts # NULL
               THEN [k1 EXCEPT !.serial[task[t].tts].msr =
                                 tiocmset_msr(task[t].msr, task[t].set, task[t].clear)]
               ELSE k1)
  /\ task' = [task EXCEPT ![t].retval = Ok(0), ![t].pc = "done"]
  /\ UNCHANGED <<driver_data, stream>>
  /\ RaceFrame

\* ---------------------------------------------- TIOCMIWAIT, step by step
\* cprev = tty0tty->icount; add_wait_queue; schedule().  The caller takes no
\* semaphore.  linked: whether add_wait_queue on the uninitialised queue head
\* links the entry or the caller dies; with driver_data reset by a
\* concurrent open the read of icount goes through a null pointer.
wait_entry(t, linked) ==
  /\ task[t].pc = "tiocmiwait"
  /\ LET ptr == driver_data[task[t].index]
     IN  IF ptr = NULL \/ ~linked
         THEN task' = [task EXCEPT ![t].pc = "oops"]
         ELSE task' = [task EXCEPT ![t].tty0tty = ptr, ![t].pc = "wait_sleep"]
  /\ UNCHANGED <<kmem, tty0tty_table, driver_data, stream>>
  /\ RaceFrame

\* The sleeping caller is woken, by a signal or by something else, and runs
\* the loop body; icount is what it was, so the wait ends.
wait_wake(t, signalled) ==
  /\ task[t].pc = "wait_sleep"
  /\ LET cnow == kmem.serial[task[t].tty0tty].icount
         out == tiocmiwait_outcome(signalled, task[t].set, cnow, cnow)
     IN  task' = [task EXCEPT ![t].retval = Err(out), ![t].pc = "done"]
  /\ UNCHANGED <<kmem, tty0tty_table, driver_data, stream>>
  /\ RaceFrame

\* ------------------------------------------- the interleaved specification
\* A step of the caller t inside a driver function other than a wake-up.
TaskStep(t) ==
  \/ open_entry(t)
  \/ \E alloc_ok \in BOOLEAN : open_create(t, alloc_ok)
  \/ \E garbage \in Ports \cup {NULL} : open_counterpart(t, garbage)
  \/ open_lines(t)
  \/ open_down(t)
  \/ open_locked(t)
  \/ close_entry(t)
  \/ close_lines(t)
  \/ close_down(t)
  \/ close_locked(t)
  \/ write_entry(t)
  \/ write_down(t)
  \/ write_counterpart(t)
  \/ write_insert(t)
  \/ write_up(t)
  \/ room_entry(t)
  \/ room_down(t)
  \/ room_locked(t)
  \/ tiocmset_entry(t)
  \/ tiocmset_store(t)
  \/ \E linked \in BOOLEAN : wait_entry(t, linked)

\* The caller t, asleep in TIOCMIWAIT, is woken from outside the driver.
WaitWake(t) == \E signalled \in BOOLEAN : wait_wake(t, signalled)

NextRace == \E t \in Tasks : TaskStep(t) \/ WaitWake(t)

\* Two calls on one pair, interleaved in every way.
SpecRace == InitRace /\ [][NextRace]_vars

\* The same under a fair scheduler: a caller that can take a step inside the
\* driver does.  Nothing promises that a caller asleep in the wait is woken.
SpecFair == InitRace /\ [][NextRace]_vars /\ \A t \in Tasks : WF_vars(TaskStep(t))

\* ======================================================================
\* Properties
\* ======================================================================
\* The status flags tiocmget reports for a port.
StatusOf(table, idx) == tiocmget_result(table, idx) \cap StatusFlags

\* The status flags a control flag drives on the other side.
Driven(flag) ==
  IF flag = TIOCM_RTS THEN {TIOCM_CTS}
  ELSE IF flag = TIOCM_DTR THEN {TIOCM_DSR, TIOCM_CAR}
  ELSE {}

\* The last call was tiocmset on a port whose pair was open on both sides.
TiocmsetBothOpen ==
  call.op = "tiocmset" /\ BothOpen(before.table, call.port)

\* After tiocmset(A, set, clear) with both ports open, B's status has the
\* flags driven by the set mask, lacks those driven by the clear mask, and
\* keeps every other flag as it was.
TransferLaw ==
  TiocmsetBothOpen =>
    LET b == counterpart_idx(call.port)
        old == StatusOf(before.table, b)
        new == StatusOf(tty0tty_table, b)
    IN  /\ \A f \in {TIOCM_RTS, TIOCM_DTR} :
             /\ f \in call.args.set => Driven(f) \subseteq new
             /\ f \in call.args.clear => Driven(f) \cap new = {}
             /\ f \notin call.args.set \cup call.args.clear =>
                  Driven(f) \cap new = Driven(f) \cap old
        /\ (TIOCM_RI \in new) = (TIOCM_RI \in old)

\* This step is tiocmset(A, {}, {f}) right after tiocmset(A, {f}, {}), the
\* pair open on both sides.  before.table is the table the set call found.
SetThenClear(f) ==
  /\ TiocmsetBothOpen
  /\ call.args.set = {f} /\ call.args.clear = {}
  /\ call'.op = "tiocmset" /\ call'.port = call.port
  /\ call'.args.set = {} /\ call'.args.clear = {f}

\* Setting and then clearing a line restores B's status, whatever it was.
RoundTripAlways ==
  \A f \in {TIOCM_RTS, TIOCM_DTR} :
    SetThenClear(f) =>
      StatusOf(tty0tty_table', counterpart_idx(call.port))
        = StatusOf(before.table, counterpart_idx(call.port))

\* Setting and then clearing a line restores B's status when the flags the
\* line drives were clear in it before the set; otherwise they end cleared.
RoundTripFromClear ==
  \A f \in {TIOCM_RTS, TIOCM_DTR} :
    SetThenClear(f) =>
      LET b == counterpart_idx(call.port)
      IN  /\ Driven(f) \cap StatusOf(tty0tty_table', b) = {}
          /\ Driven(f) \cap StatusOf(before.table, b) = {} =>
               StatusOf(tty0tty_table', b) = StatusOf(before.table, b)

\* C1 as stated: the null-modem transfer law of set_control_lines on an open
\* pair, and setting then clearing the same line restores B's status to its
\* previous value.
C1_Original == []TransferLaw /\ [][RoundTripAlways]_vars

\* C1 as amended: the null-modem transfer law of set_control_lines on an open
\* pair (RTS drives CTS, DTR drives DSR and CD, flags driven by neither mask
\* unchanged, for either port of the pair), and setting then clearing the
\* same line leaves the flags it drives cleared in B's status, which is B's
\* previous status when those flags were clear before the set.
C1_TransferLaw == []TransferLaw /\ [][RoundTripFromClear]_vars

\* A has raised and dropped RTS with both ports open; B saw CTS come and go.
C1_Witness ==
  /\ TiocmsetBothOpen
  /\ call.args.clear = {TIOCM_RTS} /\ call.args.set = {}
  /\ TIOCM_CTS \in StatusOf(before.table, counterpart_idx(call.port))
  /\ TIOCM_DSR \in StatusOf(tty0tty_table, counterpart_idx(call.port))
  /\ TIOCM_CTS \notin StatusOf(tty0tty_table, counterpart_idx(call.port))

\* C2: the status lines of every open port are determined by the control
\* lines of its counterpart: CTS iff the counterpart is open with RTS, DSR
\* and CD iff the counterpart is open with DTR, RI clear.
C2_StatusDetermined ==
  \A idx \in Ports :
    IsOpen(tty0tty_table, idx) =>
      LET b == counterpart_idx(idx)
          bopen == IsOpen(tty0tty_table, b)
          msr == tty0tty_table[idx].msr
      IN  /\ (MSR_CTS \in msr) = (bopen /\ MCR_RTS \in tty0tty_table[b].mcr)
          /\ (MSR_DSR \in msr) = (bopen /\ MCR_DTR \in tty0tty_table[b].mcr)
          /\ (MSR_CD \in msr) = (bopen /\ MCR_DTR \in tty0tty_table[b].mcr)
          /\ MSR_RI \notin msr

\* C3: while a port has no open reference (its last reference was closed, or
\* it was never opened), its open counterpart reads no CTS, CD, DSR or RI,
\* whatever control lines the port had asserted before it closed.
C3_DisconnectOnClose ==
  \A idx \in Ports :
    (~IsOpen(tty0tty_table, idx) /\ IsOpen(tty0tty_table, counterpart_idx(idx)))
      => StatusOf(tty0tty_table, counterpart_idx(idx)) = {}

\* The last reference of a port that drove RTS and DTR has just been closed,
\* and its counterpart, still open, had seen the lines.
C3_Witness ==
  /\ call.op = "close"
  /\ before.table[call.port] # NoSerial
  /\ before.table[call.port].open_count = 1
  /\ before.table[call.port].mcr = {MCR_RTS, MCR_DTR}
  /\ tty0tty_table[call.port].open_count = 0
  /\ IsOpen(tty0tty_table, counterpart_idx(call.port))
  /\ StatusOf(before.table, counterpart_idx(call.port))
       = {TIOCM_CTS, TIOCM_CAR, TIOCM_DSR}

\* C4: a write on A with both ports open appends exactly the written bytes,
\* in order and once, to B's inbound stream and to no other stream, and
\* returns the full count; every inbound stream is the concatenation, in call
\* order, of the writes made on the counterpart while both were open.
C4_ByteRelay ==
  /\ (call.op = "write" /\ BothOpen(before.table, call.port)) =>
       /\ call.ret = Ok(Len(call.args.buf))
       /\ stream = [before.stream EXCEPT
                      ![counterpart_idx(call.port)] = @ \o call.args.buf]
  /\ \A idx \in Ports : stream[idx] = relayed[idx]

\* The second write of one byte on an open pair has just returned: the
\* counterpart's stream holds the two bytes in the order written.
C4_Witness ==
  /\ call.op = "write"
  /\ BothOpen(before.table, call.port)
  /\ call.args.buf = <<"b">>
  /\ before.stream[counterpart_idx(call.port)] = <<"a">>
  /\ stream[counterpart_idx(call.port)] = <<"a", "b">>
  /\ stream[call.port] = <<>>

\* C5: a write on an open port whose counterpart has no open reference (or
\* no record) returns 0 bytes accepted, no error, and delivers nothing.
C5_WriteNoListener ==
  (/\ call.op = "write"
   /\ IsOpen(before.table, call.port)
   /\ ~IsOpen(before.table, counterpart_idx(call.port)))
    => (call.ret = Ok(0) /\ stream = before.stream)

\* The open_count of a port, 0 while it has no record.
OpenCount(table, idx) == IF table[idx] = NoSerial THEN 0 ELSE table[idx].open_count

\* C6: open_count is never negative; a successful open raises the count of
\* its port by exactly 1, a close on a port with open_count > 0 lowers it by
\* exactly 1, and no other call (on the port or on its counterpart) changes
\* it, so N opens and N closes of an index leave it at 0.
C6_RefCount ==
  \A idx \in Ports :
    LET old == OpenCount(before.table, idx)
        new == OpenCount(tty0tty_table, idx)
    IN  /\ new >= 0
        /\ new = IF call.op = "open" /\ call.port = idx /\ call.ret.err = "0"
                 THEN old + 1
                 ELSE IF call.op = "close" /\ call.port = idx /\ old > 0
                 THEN old - 1
                 ELSE old

\* The last of two references of a port has just been closed, while the
\* counterpart is held twice.
C6_Witness ==
  /\ call.op = "close"
  /\ OpenCount(before.table, call.port) = 1
  /\ OpenCount(tty0tty_table, call.port) = 0
  /\ OpenCount(tty0tty_table, counterpart_idx(call.port)) = 2

\* C7: a close of a port held twice leaves it open with open_count 1, and
\* the open counterpart's status is not cleared by it.
C7_StillPropagates ==
  (/\ call.op = "close"
   /\ OpenCount(before.table, call.port) = 2
   /\ IsOpen(before.table, counterpart_idx(call.port)))
    => /\ OpenCount(tty0tty_table, call.port) = 1
       /\ tty0tty_table[counterpart_idx(call.port)].msr
            = before.table[counterpart_idx(call.port)].msr

\* This step is a tiocmset on port a that takes its RTS from 0 to 1.
RtsRises(a) ==
  /\ call'.op = "tiocmset" /\ call'.port = a
  /\ tty0tty_table[a] # NoSerial
  /\ MCR_RTS \notin tty0tty_table[a].mcr
  /\ MCR_RTS \in tty0tty_table'[a].mcr

\* C8: when A's RTS goes 0 -> 1 through set_control_lines, every caller
\* sleeping in the status-change wait for CTS on open port B is woken (so
\* that it can return success); a mutation wakes all waiters sleeping on B.
C8_WakeOnRts ==
  [][\A a \in Ports, t \in Threads :
       (/\ RtsRises(a)
        /\ waiter[t].pc = "sleep"
        /\ waiter[t].port = counterpart_idx(a)
        /\ TIOCM_CTS \in waiter[t].arg
        /\ waiter[t].state = "TASK_INTERRUPTIBLE")
         => waiter'[t].state = "TASK_RUNNING"]_vars

\* The interrupt counter and the status line it counts.
CounterOf == [cts |-> MSR_CTS, dsr |-> MSR_DSR, dcd |-> MSR_CD, rng |-> MSR_RI]

\* C9: an interrupt counter of a port never decreases, rises by exactly 1
\* when set_control_lines or the counterpart's close changes its status
\* line and by 0 otherwise, and get-interrupt-counts returns the counters.
C9_Counters ==
  /\ \A idx \in Ports :
       (before.table[idx] # NoSerial /\ call.op \in {"tiocmset", "close"}) =>
         \A c \in DOMAIN CounterOf :
           tty0tty_table[idx].icount[c]
             = before.table[idx].icount[c]
                 + (IF (CounterOf[c] \in tty0tty_table[idx].msr)
                        = (CounterOf[c] \in before.table[idx].msr)
                    THEN 0 ELSE 1)
  /\ call.op = "tiocgicount" =>
       call.ret = Ok(tty0tty_table[call.port].icount)

\* C10: counterpart(i) is i + 1 for even i and i - 1 for odd i, is a valid
\* index other than i, and counterpart(counterpart(i)) = i; get_counterpart
\* returns that port's record when its open_count > 0 and NULL otherwise.
C10_Pairing ==
  \A i \in 0 .. (2 * pairs - 1) :
    LET c == counterpart_idx(i)
    IN  /\ (i % 2 = 0 => c = i + 1) /\ (i % 2 # 0 => c = i - 1)
        /\ c >= 0 /\ c < 2 * pairs
        /\ c # i
        /\ counterpart_idx(c) = i
        /\ IF tty0tty_table[c] # NoSerial /\ tty0tty_table[c].open_count > 0
           THEN get_counterpart(tty0tty_table, i) = c
           ELSE get_counterpart(tty0tty_table, i) = NULL

\* Two pairs: port 3 is open and is what port 2 gets; port 1 has a record
\* with no open reference and port 0 gets NULL.
C10_Witness ==
  /\ pairs = 2
  /\ get_counterpart(tty0tty_table, 2) = 3
  /\ tty0tty_table[1] # NoSerial
  /\ tty0tty_table[1].open_count = 0
  /\ tty0tty_table[0] # NoSerial
  /\ get_counterpart(tty0tty_table, 0) = NULL

\* C11: write and write_room on a handle whose port has open_count = 0 return
\* an error, deliver no bytes (even when the counterpart is open) and change
\* no port state; write_room on an open port returns the same positive
\* constant, 255, on every call.
C11_NotConnected ==
  /\ (call.op \in {"write", "write_room"} /\ OpenCount(before.table, call.port) = 0)
       => /\ call.ret.err # "0"
          /\ stream = before.stream
          /\ tty0tty_table = before.table
  /\ (call.op = "write_room" /\ OpenCount(before.table, call.port) > 0)
       => (call.ret = Ok(255) /\ call.ret.val > 0)

\* A write through a stale handle (the port was opened and closed again) has
\* just failed while the counterpart is open with room in its flip buffer.
C11_Witness ==
  /\ call.op = "write"
  /\ driver_data[call.port] # NULL
  /\ OpenCount(before.table, call.port) = 0
  /\ IsOpen(before.table, counterpart_idx(call.port))
  /\ call.ret = Err("EINVAL")
  /\ stream[counterpart_idx(call.port)] = <<>>

\* C12: tiocmset with LOOP in the set mask makes LOOP part of what tiocmget
\* reports on the calling port, LOOP in the clear mask removes it, and a
\* LOOP set or clear never changes the counterpart's status lines.
C12_LoopLocal ==
  call.op = "tiocmset" =>
    /\ TIOCM_LOOP \in call.args.set
         => TIOCM_LOOP \in tiocmget_result(tty0tty_table, call.port)
    /\ TIOCM_LOOP \in call.args.clear
         => TIOCM_LOOP \notin tiocmget_result(tty0tty_table, call.port)
    /\ (call.args.set \cup call.args.clear = {TIOCM_LOOP}
        /\ before.table[counterpart_idx(call.port)] # NoSerial)
         => tty0tty_table[counterpart_idx(call.port)].msr
              = before.table[counterpart_idx(call.port)].msr

\* This step frees the record of port i.
Releases(i) == i \notin freed /\ i \in freed'

\* This step is a do_close of the freeing loop on port i.
ExitCloses(i) ==
  /\ exit_i = i /\ exit_i' = i
  /\ tty0tty_table[i] # NoSerial
  /\ tty0tty_table'[i] # tty0tty_table[i]

\* C13: module teardown ends, whatever the open counts it starts from; the
\* record of a port is released only once the close loop has brought its
\* open_count to 0; and no released record is read as a counterpart: no slot
\* of the table points to one, and the do_close calls of the loop find the
\* counterpart's slot empty or holding a record not yet released.
C13_Teardown ==
  /\ (exit_i # NULL) ~> (exit_i = 2 * pairs /\ \A i \in Ports : tty0tty_table[i] = NoSerial)
  /\ [][\A i \in Ports : Releases(i) => tty0tty_table[i].open_count = 0]_vars
  /\ [](\A i \in freed : tty0tty_table[i] = NoSerial)
  /\ [][\A i \in Ports : ExitCloses(i) =>
          (counterpart_idx(i) \in freed => tty0tty_table[counterpart_idx(i)] = NoSerial)]_vars

\* Teardown has closed port 1, held twice with its counterpart already
\* released, down to 0 and has released every record.
C13_Witness ==
  /\ exit_i = 2 * pairs
  /\ freed = {0, 1}
  /\ call.op = "do_close"
  /\ call.port = 1
  /\ before.table[1].open_count = 1
  /\ before.table[0] = NoSerial

\* The status flag whose transitions each interrupt counter counts.
FlagOf == [cts |-> TIOCM_CTS, dsr |-> TIOCM_DSR, dcd |-> TIOCM_CAR, rng |-> TIOCM_RI]

\* The counters that differ between two snapshots.
Changed(cprev, cnow) == {c \in DOMAIN FlagOf : cnow[c] # cprev[c]}

\* This step is thread t, woken, running the loop body after schedule().
Wakes(t) ==
  /\ waiter[t].pc = "sleep"
  /\ waiter[t].state = "TASK_RUNNING"
  /\ (waiter'[t].pc = "idle" \/ waiter'[t].state = "TASK_INTERRUPTIBLE")

\* Thread t's wait returns ret in this step.
WaitReturns(t, ret) ==
  /\ waiter'[t].pc = "idle"
  /\ call'.op = "tiocmiwait" /\ call'.args.thread = t
  /\ call'.ret = ret

\* C14: on each wake the wait ends Cancelled (-ERESTARTSYS) if the caller
\* was interrupted, even if a watched counter changed; otherwise NoChange
\* (-EIO) if none of the four counters differs from the snapshot; otherwise
\* success iff a counter named in the mask differs; otherwise the snapshot
\* becomes the current counters and the caller blocks again.
C14_WaitOutcome ==
  [][\A t \in Threads :
       Wakes(t) =>
         LET w == waiter[t]
             cnow == tty0tty_table[w.port].icount
             diff == Changed(w.cprev, cnow)
         IN  IF w.signal_pending
             THEN WaitReturns(t, Err("ERESTARTSYS"))
             ELSE IF diff = {}
             THEN WaitReturns(t, Err("EIO"))
             ELSE IF \E c \in diff : FlagOf[c] \in w.arg
             THEN WaitReturns(t, Ok(0))
             ELSE /\ waiter'[t].pc = "sleep"
                  /\ waiter'[t].state = "TASK_INTERRUPTIBLE"
                  /\ waiter'[t].cprev = cnow
                  /\ UNCHANGED call]_vars

\* A wait for CTS has returned success: CTS's counter differed from the
\* snapshot, and so did DSR's, which the caller had not asked for.
C14_Witness ==
  /\ call.op = "tiocmiwait"
  /\ call.ret = Ok(0)
  /\ call.args.set = {TIOCM_CTS}
  /\ tty0tty_table[call.port].icount.cts = 1
  /\ tty0tty_table[call.port].icount.dsr = 1
  /\ \A t \in Threads : waiter[t].pc = "idle"

BothReturned == \A t \in Tasks : task[t].pc = "done"

\* The control lines a port presents to its counterpart: none when closed.
LinesOf(table, idx) == IF IsOpen(table, idx) THEN table[idx].mcr ELSE {}

\* C16: for every interleaving of open(A) with a tiocmset(B) or close(B) on
\* the counterpart, once both calls have returned A's status is the transfer
\* function of B's final control lines (all clear if B is closed), as in
\* either sequential order.  A is a port that has been opened before, so the
\* open reads its index through a valid tty.
C16_OpenAtomic ==
  \A a, b \in Tasks :
    (/\ BothReturned
     /\ task[a].op = "open" /\ task[a].retval = Ok(0)
     /\ before.table[task[a].index] # NoSerial
     /\ before.table[task[a].index].tty # NULL
     /\ task[b].op \in {"tiocmset", "close"}
     /\ task[b].index = counterpart_idx(task[a].index))
      => tty0tty_table[task[a].index].msr
           = null_modem(LinesOf(tty0tty_table, task[b].index))

\* The table after the call of a caller run as one step (tiocmset or close
\* on a port that has its driver_data).
Atomically(table, c) ==
  IF c.op = "tiocmset" THEN tiocmset_table(table, c.index, c.set, c.clear)
  ELSE do_close(table, c.index)

\* C17: tiocmset is atomic.  Two concurrent tiocmset calls on the same open
\* port, or a tiocmset and a close of the same port, leave the pair as one
\* of the two sequential orders does; for one call setting RTS and the
\* other DTR, the port ends with RTS and DTR and its open counterpart with
\* CTS, DSR and CD.
C17_SetAtomic ==
  \A a, b \in Tasks :
    (/\ a # b
     /\ BothReturned
     /\ task[a].op = "tiocmset"
     /\ task[b].op \in {"tiocmset", "close"}
     /\ task[b].index = task[a].index
     /\ driver_data[task[a].index] # NULL)
      => /\ tty0tty_table \in
              {Atomically(Atomically(before.table, task[a]), task[b]),
               Atomically(Atomically(before.table, task[b]), task[a])}
         /\ (/\ task[a].set = {TIOCM_RTS} /\ task[b].op = "tiocmset"
             /\ task[b].set = {TIOCM_DTR}
             /\ IsOpen(tty0tty_table, counterpart_idx(task[a].index)))
              => /\ {MCR_RTS, MCR_DTR} \subseteq tty0tty_table[task[a].index].mcr
                 /\ {MSR_CTS, MSR_DSR, MSR_CD}
                      \subseteq tty0tty_table[counterpart_idx(task[a].index)].msr

\* C18: when two callers open the same index concurrently, exactly one
\* record exists for it (one is created if there was none), it is the one in
\* the table, both callers and the tty's driver_data refer to it, and its
\* open_count has grown by 2 once both opens have returned.
C18_OneRecord ==
  \A a, b \in Tasks :
    (/\ a # b
     /\ BothReturned
     /\ task[a].op = "open" /\ task[a].retval = Ok(0)
     /\ task[b].op = "open" /\ task[b].retval = Ok(0)
     /\ task[a].index = task[b].index)
      => /\ Len(kmem.serial) = Len(KmemOf(before.table).serial)
              + (IF before.table[task[a].index] = NoSerial THEN 1 ELSE 0)
         /\ task[a].tty0tty = task[b].tty0tty
         /\ kmem.table[task[a].index] = task[a].tty0tty
         /\ driver_data[task[a].index] = task[a].tty0tty
         /\ OpenCount(tty0tty_table, task[a].index)
              = OpenCount(before.table, task[a].index) + 2

\* C19: for every interleaving of a write with a close or an open of the
\* counterpart, bytes are appended to a port's inbound stream only at an
\* instant when that port's open_count > 0, never after its last close.
C19_RelayOnlyOpen ==
  [][\A idx \in Ports :
       stream'[idx] # stream[idx] => IsOpen(tty0tty_table, idx)]_vars

\* The positions between a down() and the up() that follows it.
LockedPcs ==
  {"open_locked", "close_locked", "write_counterpart", "write_insert",
   "write_up", "room_locked"}

\* The callers that hold the semaphore of the object at ptr.
Holders(ptr) == {t \in Tasks : task[t].pc \in LockedPcs /\ task[t].tty0tty = ptr}

\* A semaphore is taken exactly while one caller is between its down() and
\* its up(): no exit path leaves it taken, and a caller that has returned,
\* died or sleeps in the wait holds none.
LocksReleased ==
  \A ptr \in 1 .. Len(kmem.serial) :
    /\ Cardinality(Holders(ptr)) <= 1
    /\ (kmem.serial[ptr].sem = 0) = (Holders(ptr) # {})

====
